---- MODULE Spec2Model ----
(***************************************************************************)
(* Model of visitors/decorators.py: the user_is_visitor decorator (the     *)
(* access gate), its inner() wrapper and redirect_to_self_service, run     *)
(* against a store holding the Visitor and VisitorLog tables.              *)
(***************************************************************************)
EXTENDS Naturals, Sequences, FiniteSets

VARIABLES
    deco,       \* what the latest user_is_visitor(...) call produced
    visitors,   \* the Visitor table, in creation order (uuid = position)
    logs,       \* the VisitorLog table, in creation order
    calls       \* invocations of inner(): in flight, or finished and not yet collected

vars == <<deco, visitors, logs, calls>>

(***************************************************************************)
(* Bounds of the model.                                                    *)
(***************************************************************************)
\* rows the gate may add to the store (logs plus self-service visitors)
MaxWrites == 2
\* invocations of inner() that one concurrent run starts
MaxRequests == 2

(***************************************************************************)
(* Values.                                                                 *)
(***************************************************************************)
SCOPE_ANY == "*"

\* scope strings a decorator may be given ("" is the parameter's default)
Scopes == {"", "foo", "bar", SCOPE_ANY}

\* bypass_func: None, or one of the predicates the tests pass
BypassFuncs == {"None", "lambda r: True", "lambda r: False"}

\* status codes a view may answer with
StatusCodes == {200, 404}

\* request.get_full_path()
FullPaths == {"/", "/a?b=1"}

\* the Visitor rows that exist before any request: active, one per scope
\* the gate has to tell apart
InitialVisitors ==
    << [uuid |-> 1, email |-> "fred@example.com", scope |-> "foo",
        is_active |-> TRUE, context |-> {}],
       [uuid |-> 2, email |-> "any@example.com", scope |-> SCOPE_ANY,
        is_active |-> TRUE, context |-> {}],
       [uuid |-> 3, email |-> "blank@example.com", scope |-> "",
        is_active |-> TRUE, context |-> {}] >>

\* TestDecorators._request: visitor is a uuid of an active Visitor row, or
\* 0 for None; request.user.is_visitor is set from it
MakeRequest(visitor, path) ==
    [kind |-> "HttpRequest",
     user |-> [is_visitor |-> visitor # 0],
     visitor |-> visitor,
     full_path |-> path]

Requests ==
    { MakeRequest(v, p) : v \in 0..Len(InitialVisitors), p \in FullPaths }

\* the object a decorated method receives as its first argument
SelfObj == [kind |-> "object"]

\* positional arguments of a call of the wrapped view: a function view gets
\* (request), a method view (self, request); (self) alone has no request
ArgLists ==
    { <<r>> : r \in Requests } \cup { <<SelfObj, r>> : r \in Requests }
        \cup { <<SelfObj>> }

\* the decorator's keyword arguments
Config(scope, bypass_func, log_visit, self_service) ==
    [scope |-> scope, bypass_func |-> bypass_func,
     log_visit |-> log_visit, self_service |-> self_service]

Configs ==
    { Config(s, b, l, ss) :
        s \in Scopes, b \in BypassFuncs, l \in BOOLEAN, ss \in BOOLEAN }

\* HttpResponse("OK") with the status the view chose
HttpResponse(status_code) == [status_code |-> status_code, content |-> "OK"]

(***************************************************************************)
(* user_is_visitor: the decorator itself.                                  *)
(***************************************************************************)
\* line 80: `if not scope`
ScopeIsEmpty(scope) == scope = ""

\* mutant: the scope is validated only once a view is being wrapped
user_is_visitor_late_check(has_view_func, cfg) ==
    IF ~has_view_func
    THEN [kind |-> "partial", cfg |-> cfg]
    ELSE IF ScopeIsEmpty(cfg.scope)
    THEN [kind |-> "ValueError", message |-> "Decorator scope cannot be empty.",
          cfg |-> cfg, has_view_func |-> has_view_func]
    ELSE [kind |-> "inner", cfg |-> cfg]

\* the value user_is_visitor returns, or the ValueError it raises
user_is_visitor(has_view_func, cfg) ==
    IF ScopeIsEmpty(cfg.scope)
    THEN [kind |-> "ValueError", message |-> "Decorator scope cannot be empty.",
          cfg |-> cfg, has_view_func |-> has_view_func]
    ELSE IF ~has_view_func
    THEN [kind |-> "partial", cfg |-> cfg]
    ELSE [kind |-> "inner", cfg |-> cfg]

(***************************************************************************)
(* inner(): the pieces of the wrapper.                                     *)
(***************************************************************************)
NoRequest == [kind |-> "None"]

RECURSIVE _get_request_arg(_)
_get_request_arg(args) ==
    IF args = <<>> THEN NoRequest
    ELSE IF Head(args).kind = "HttpRequest" THEN Head(args)
    ELSE _get_request_arg(Tail(args))

\* calling bypass_func on a request
CallBypassFunc(bypass_func, request) ==
    CASE bypass_func = "lambda r: True" -> TRUE
      [] bypass_func = "lambda r: False" -> FALSE

\* line 107: `bypass_func and bypass_func(request)`
Bypassed(cfg, request) ==
    cfg.bypass_func # "None" /\ CallBypassFunc(cfg.bypass_func, request)

\* line 117: `not request.user.is_visitor`
NoVisitor(request) == ~request.user.is_visitor

\* mutant: a credential with a blank scope is let through
WrongScopeUnlessBlank(scope, visitor_scope) ==
    scope \notin {SCOPE_ANY, visitor_scope} /\ visitor_scope # ""

\* mutant: the wildcard is honoured on the credential's side too
WrongScopeEitherWildcard(scope, visitor_scope) ==
    scope \notin {SCOPE_ANY, visitor_scope} /\ visitor_scope # SCOPE_ANY

\* mutant: the wildcard is not honoured
WrongScopeNoWildcard(scope, visitor_scope) == scope # visitor_scope

\* line 121: `scope not in (SCOPE_ANY, request.visitor.scope)`
WrongScope(scope, visitor_scope) == scope \notin {SCOPE_ANY, visitor_scope}

\* request.visitor.scope, read from the row the request carries
VisitorScope(request) == InitialVisitors[request.visitor].scope

\* a fresh invocation of inner(*args)
NewCall(cfg, args) ==
    [cfg |-> cfg, args |-> args, pc |-> "start",
     view_calls |-> <<>>, response |-> <<>>, result |-> <<>>]

Raise(c, exc) == [c EXCEPT !.pc = "done", !.result = <<exc>>]
Return(c, value) == [c EXCEPT !.pc = "done", !.result = <<value>>]

\* mutant: the self_service flag is not consulted
_always_redirect(c, message) == [c EXCEPT !.pc = "create_visitor"]

\* lines 110-114: raise VisitorAccessDenied, or go on to create the
\* self-service visitor
_raise_or_redirect(c, message) ==
    IF c.cfg.self_service
    THEN [c EXCEPT !.pc = "create_visitor"]
    ELSE Raise(c, [kind |-> "VisitorAccessDenied", message |-> message,
                   scope |-> c.cfg.scope])

\* lines 95-123: everything inner() does before it calls the view or the store
Enter(c) ==
    LET request == _get_request_arg(c.args) IN
    IF request = NoRequest
    THEN Raise(c, [kind |-> "ValueError", message |-> "Request argument missing."])
    ELSE IF Bypassed(c.cfg, request)
    THEN [c EXCEPT !.pc = "view_bypass"]
    ELSE IF NoVisitor(request)
    THEN _raise_or_redirect(c, "Visitor access denied")
    ELSE IF WrongScope(c.cfg.scope, VisitorScope(request))
    THEN _raise_or_redirect(c, "Visitor access denied (invalid scope)")
    ELSE [c EXCEPT !.pc = "view"]

\* mutant: log_visit is not consulted
AfterViewAlwaysLog(c, response) == [c EXCEPT !.pc = "create_log"]

\* what inner() does with the view's response on the checked path
AfterView(c, response) ==
    IF c.cfg.log_visit
    THEN [c EXCEPT !.pc = "create_log"]
    ELSE Return(c, [kind |-> "HttpResponse", response |-> response])

\* mutant: the bypass path falls through to the logging of the checked path
CallViewThenLog(c, status_code) ==
    LET response == HttpResponse(status_code)
        called == [c EXCEPT !.view_calls = Append(@, c.args),
                            !.response = <<response>>]
    IN  AfterView(called, response)

\* lines 108 and 125: view_func(*args, **kwargs) answers with some status
CallView(c, status_code) ==
    LET response == HttpResponse(status_code)
        called == [c EXCEPT !.view_calls = Append(@, c.args),
                            !.response = <<response>>]
    IN  IF c.pc = "view_bypass"
        THEN Return(called, [kind |-> "HttpResponse", response |-> response])
        ELSE AfterView(called, response)

(***************************************************************************)
(* The store. A create either adds its one row and returns it, or raises   *)
(* and leaves the table as it was.                                         *)
(***************************************************************************)
StoreError(op) == [kind |-> "StoreError", op |-> op]

Created(table, row) == [raised |-> FALSE, table |-> Append(table, row)]
Refused(table, op) == [raised |-> TRUE, table |-> table, error |-> StoreError(op)]

\* VisitorLog.objects.create_log(request, status_code): a row for the
\* request's visitor with the status code
create_log(table, request, status_code, store_ok) ==
    IF store_ok
    THEN Created(table, [visitor |-> request.visitor, status_code |-> status_code])
    ELSE Refused(table, "create_log")

\* Visitor.objects.create(**fields): the new row gets a uuid no other row has
VisitorCreate(table, email, scope, is_active, context, store_ok) ==
    IF store_ok
    THEN Created(table, [uuid |-> Len(table) + 1, email |-> email, scope |-> scope,
                         is_active |-> is_active, context |-> context])
    ELSE Refused(table, "Visitor.objects.create")

\* mutant: a failed log write is swallowed and the response returned
CreateLogSwallowError(c, table, store_ok) ==
    LET request == _get_request_arg(c.args)
        response == c.response[1]
        write == create_log(table, request, response.status_code, store_ok)
    IN  [call |-> Return(c, [kind |-> "HttpResponse", response |-> response]),
         table |-> write.table]

\* lines 126-128: the log write, then `return response`
CreateLog(c, table, store_ok) ==
    LET request == _get_request_arg(c.args)
        response == c.response[1]
        write == create_log(table, request, response.status_code, store_ok)
    IN  [call |-> IF write.raised
                  THEN Raise(c, write.error)
                  ELSE Return(c, [kind |-> "HttpResponse", response |-> response]),
         table |-> write.table]

\* reverse("visitors:self-service", kwargs={"visitor_uuid": uuid})
Reverse(viewname, visitor_uuid) ==
    [viewname |-> viewname, visitor_uuid |-> visitor_uuid]

\* lines 144-150: the redirect's Location
SelfServiceLocation(visitor, request) ==
    [url |-> Reverse("visitors:self-service", visitor.uuid),
     query |-> <<"?next=", request.full_path>>]

\* mutant: the self-service visitor is created active
redirect_to_self_service_active(c, table, store_ok) ==
    LET request == _get_request_arg(c.args)
        write == VisitorCreate(table, "anon@example.com", c.cfg.scope, TRUE,
                               {<<"self-service", TRUE>>}, store_ok)
        visitor == write.table[Len(write.table)]
    IN  [call |-> IF write.raised
                  THEN Raise(c, write.error)
                  ELSE Return(c, [kind |-> "HttpResponseRedirect",
                                  location |-> SelfServiceLocation(visitor, request)]),
         table |-> write.table]

\* mutant: an inactive visitor of the scope is reused when there is one
\* (get_or_create in place of create)
redirect_to_self_service_get_or_create(c, table, store_ok) ==
    LET request == _get_request_arg(c.args)
        found == { i \in DOMAIN table :
                     ~table[i].is_active /\ table[i].scope = c.cfg.scope }
        write == VisitorCreate(table, "anon@example.com", c.cfg.scope, FALSE,
                               {<<"self-service", TRUE>>}, store_ok)
        visitor == IF found # {} THEN table[CHOOSE i \in found : TRUE]
                   ELSE write.table[Len(write.table)]
    IN  [call |-> IF found = {} /\ write.raised
                  THEN Raise(c, write.error)
                  ELSE Return(c, [kind |-> "HttpResponseRedirect",
                                  location |-> SelfServiceLocation(visitor, request)]),
         table |-> IF found # {} THEN table ELSE write.table]

\* lines 133-150: redirect_to_self_service(request, scope), returned by inner()
redirect_to_self_service(c, table, store_ok) ==
    LET request == _get_request_arg(c.args)
        write == VisitorCreate(table, "anon@example.com", c.cfg.scope, FALSE,
                               {<<"self-service", TRUE>>}, store_ok)
        visitor == write.table[Len(write.table)]
    IN  [call |-> IF write.raised
                  THEN Raise(c, write.error)
                  ELSE Return(c, [kind |-> "HttpResponseRedirect",
                                  location |-> SelfServiceLocation(visitor, request)]),
         table |-> write.table]

\* inner(*args) from call to return, with the view answering status_code and
\* the store accepting (store_ok) or refusing its write
RECURSIVE Run(_, _, _, _, _)
Run(c, vs, ls, status_code, store_ok) ==
    CASE c.pc = "done" -> [call |-> c, visitors |-> vs, logs |-> ls]
      [] c.pc = "start" -> Run(Enter(c), vs, ls, status_code, store_ok)
      [] c.pc \in {"view", "view_bypass"} ->
            Run(CallView(c, status_code), vs, ls, status_code, store_ok)
      [] c.pc = "create_log" ->
            LET r == CreateLog(c, ls, store_ok)
            IN  Run(r.call, vs, r.table, status_code, store_ok)
      [] c.pc = "create_visitor" ->
            LET r == redirect_to_self_service(c, vs, store_ok)
            IN  Run(r.call, r.table, ls, status_code, store_ok)

(***************************************************************************)
(* The state machine.                                                      *)
(***************************************************************************)
Init ==
    /\ deco = [kind |-> "None"]
    /\ visitors = InitialVisitors
    /\ logs = <<>>
    /\ calls = <<>>

Written == Len(logs) + (Len(visitors) - Len(InitialVisitors))

\* @user_is_visitor(...) or user_is_visitor(view, ...) at import time
DecorateWith(configs) ==
    /\ \E has_view_func \in BOOLEAN, cfg \in configs :
         deco' = user_is_visitor(has_view_func, cfg)
    /\ UNCHANGED <<visitors, logs, calls>>

Decorate == calls = <<>> /\ DecorateWith(Configs)

\* the partial returned by @user_is_visitor(scope=...) is applied to the view
ApplyPartial ==
    /\ deco.kind = "partial"
    /\ \A i \in DOMAIN calls : calls[i].pc = "done"
    /\ deco' = user_is_visitor(TRUE, deco.cfg)
    /\ UNCHANGED <<visitors, logs, calls>>

\* one request served from start to finish
Invoke(store_oks) ==
    /\ deco.kind = "inner"
    /\ calls = <<>>
    /\ Written < MaxWrites
    /\ \E args \in ArgLists, status_code \in StatusCodes, store_ok \in store_oks :
         LET r == Run(NewCall(deco.cfg, args), visitors, logs, status_code, store_ok)
         IN  /\ calls' = <<r.call>>
             /\ visitors' = r.visitors
             /\ logs' = r.logs
    /\ UNCHANGED deco

\* the caller takes the response, or the exception
Collect ==
    /\ calls # <<>>
    /\ \A i \in DOMAIN calls : calls[i].pc = "done"
    /\ calls' = <<>>
    /\ UNCHANGED <<deco, visitors, logs>>

\* the store accepts every write
InvokeOk == Invoke({TRUE})

Next == Decorate \/ ApplyPartial \/ InvokeOk \/ Collect

Spec == Init /\ [][Next]_vars

\* the store may refuse a write (database down, constraint error)
InvokeStoreMayFail == Invoke(BOOLEAN)

NextStoreFail == Decorate \/ ApplyPartial \/ InvokeStoreMayFail \/ Collect

SpecStoreFail == Init /\ [][NextStoreFail]_vars

(***************************************************************************)
(* Requests served concurrently: each invocation of inner() advances by    *)
(* its own steps (the checks, the view call, the store call), interleaved  *)
(* with the steps of the others. Finished invocations stay in calls.       *)
(***************************************************************************)
\* the gates the concurrent requests go through: one view per configuration
ConcConfigs ==
    { Config("foo", "None", l, ss) : l \in BOOLEAN, ss \in BOOLEAN }
        \cup { Config("foo", "lambda r: True", TRUE, TRUE) }

ConcArgLists == { <<MakeRequest(v, "/")>> : v \in 0..2 }

\* a request arrives at one of the decorated views
Begin ==
    /\ Len(calls) < MaxRequests
    /\ \E cfg \in ConcConfigs, args \in ConcArgLists :
         /\ user_is_visitor(TRUE, cfg).kind = "inner"
         /\ calls' = Append(calls, NewCall(cfg, args))
    /\ UNCHANGED <<deco, visitors, logs>>

StepEnter(i) ==
    /\ calls[i].pc = "start"
    /\ calls' = [calls EXCEPT ![i] = Enter(@)]
    /\ UNCHANGED <<deco, visitors, logs>>

StepView(i) ==
    /\ calls[i].pc \in {"view", "view_bypass"}
    /\ \E status_code \in StatusCodes :
         calls' = [calls EXCEPT ![i] = CallView(@, status_code)]
    /\ UNCHANGED <<deco, visitors, logs>>

StepCreateLog(i) ==
    /\ calls[i].pc = "create_log"
    /\ LET r == CreateLog(calls[i], logs, TRUE)
       IN  calls' = [calls EXCEPT ![i] = r.call] /\ logs' = r.table
    /\ UNCHANGED <<deco, visitors>>

StepCreateVisitor(i) ==
    /\ calls[i].pc = "create_visitor"
    /\ LET r == redirect_to_self_service(calls[i], visitors, TRUE)
       IN  calls' = [calls EXCEPT ![i] = r.call] /\ visitors' = r.table
    /\ UNCHANGED <<deco, logs>>

\* one request in flight takes its next step
EnterSome == \E i \in DOMAIN calls : StepEnter(i)
ViewSome == \E i \in DOMAIN calls : StepView(i)
CreateLogSome == \E i \in DOMAIN calls : StepCreateLog(i)
CreateVisitorSome == \E i \in DOMAIN calls : StepCreateVisitor(i)

NextConc == Begin \/ EnterSome \/ ViewSome \/ CreateLogSome \/ CreateVisitorSome

SpecConc == Init /\ [][NextConc]_vars

(***************************************************************************)
(* Vocabulary of the properties: an invocation c of the gate, described    *)
(* by what went in (configuration, arguments, the store's rows) and what   *)
(* came out (the calls the view received, the result the caller got).      *)
(***************************************************************************)
TheRequest(c) == c.args[Len(c.args)]
CarriesRequest(c) == TheRequest(c).kind = "HttpRequest"

\* the request carries a credential, and that credential is active
HasActiveCredential(c) ==
    /\ CarriesRequest(c)
    /\ TheRequest(c).visitor # 0
    /\ visitors[TheRequest(c).visitor].is_active

CredentialScope(c) == visitors[TheRequest(c).visitor].scope

\* bypass_func is configured and returns true for the request
BypassInEffect(c) == c.cfg.bypass_func = "lambda r: True"

\* the credential's scope differs from the required scope
ScopeMismatch(c) == HasActiveCredential(c) /\ CredentialScope(c) # c.cfg.scope

Finished(c) == c.pc = "done"
Outcome(c) == c.result[1]
HandlerNotInvoked(c) == c.view_calls = <<>> /\ c.response = <<>>
HandlerInvokedOnce(c) == c.view_calls = <<c.args>>
ReturnsHandlerResponse(c) ==
    Outcome(c) = [kind |-> "HttpResponse", response |-> c.response[1]]
AccessDenied(c) ==
    /\ Outcome(c).kind = "VisitorAccessDenied"
    /\ Outcome(c).scope = c.cfg.scope

\* a step that serves one request from start to finish
Serves == calls = <<>> /\ calls' # <<>>
StoreUntouched == logs' = logs /\ visitors' = visitors

(***************************************************************************)
(* C1: with self_service off and no bypass in effect, a request with no    *)
(* active credential, or with a credential whose scope differs from a      *)
(* non-wildcard required scope, ends in VisitorAccessDenied; the handler   *)
(* is not invoked, no log entry is written and no credential is created.   *)
(***************************************************************************)
C1_Case(c) ==
    /\ CarriesRequest(c)
    /\ ~c.cfg.self_service
    /\ ~BypassInEffect(c)
    /\ \/ ~HasActiveCredential(c)
       \/ c.cfg.scope # SCOPE_ANY /\ ScopeMismatch(c)

C1_DeniedWithoutSelfService ==
    [][Serves =>
        LET c == calls'[1]
        IN  C1_Case(c) =>
              /\ Finished(c)
              /\ AccessDenied(c)
              /\ HandlerNotInvoked(c)
              /\ StoreUntouched]_vars

C1_Witness ==
    /\ calls # <<>>
    /\ C1_Case(calls[1])
    /\ ScopeMismatch(calls[1])
    /\ calls[1].cfg.log_visit
    /\ AccessDenied(calls[1])

(***************************************************************************)
(* C2: a request with an active credential of non-empty scope, at a gate   *)
(* whose required scope equals that scope or is the wildcard, has the      *)
(* handler invoked exactly once with the original arguments and gets the   *)
(* handler's response unmodified, whatever log_visit and self_service are. *)
(***************************************************************************)
C2_Case(c) ==
    /\ HasActiveCredential(c)
    /\ CredentialScope(c) # ""
    /\ c.cfg.scope = CredentialScope(c) \/ c.cfg.scope = SCOPE_ANY

C2_MatchingScopeAllowed ==
    \A i \in DOMAIN calls :
        LET c == calls[i]
        IN  Finished(c) /\ C2_Case(c) =>
              HandlerInvokedOnce(c) /\ ReturnsHandlerResponse(c)

C2_Witness ==
    /\ calls # <<>>
    /\ Finished(calls[1])
    /\ C2_Case(calls[1])
    /\ calls[1].cfg.scope = SCOPE_ANY
    /\ CredentialScope(calls[1]) = "foo"
    /\ calls[1].cfg.self_service
    /\ calls[1].cfg.log_visit
    /\ Len(calls[1].args) = 2
    /\ ReturnsHandlerResponse(calls[1])
    /\ Outcome(calls[1]).response.status_code = 404

(***************************************************************************)
(* C3: when bypass_func is configured and returns true, the handler is     *)
(* invoked and its response returned whatever the credential state; no     *)
(* log entry is written even with log_visit on, and neither a denial nor   *)
(* a self-service credential results.                                      *)
(***************************************************************************)
C3_Case(c) == CarriesRequest(c) /\ BypassInEffect(c)

C3_BypassSkipsGate ==
    [][Serves =>
        LET c == calls'[1]
        IN  C3_Case(c) =>
              /\ Finished(c)
              /\ HandlerInvokedOnce(c)
              /\ ReturnsHandlerResponse(c)
              /\ StoreUntouched]_vars

C3_Witness ==
    /\ calls # <<>>
    /\ C3_Case(calls[1])
    /\ ~HasActiveCredential(calls[1])
    /\ calls[1].cfg.log_visit
    /\ calls[1].cfg.self_service
    /\ ReturnsHandlerResponse(calls[1])
    /\ logs = <<>>

(***************************************************************************)
(* C4: every step leaves the log as it was, except an invocation that was  *)
(* allowed, not bypassed and had log_visit on, which appends exactly one   *)
(* entry: the request's credential with the status code of the handler's   *)
(* response. Denied, bypassed and unlogged invocations add nothing, and    *)
(* entries already written are never changed or removed.                   *)
(***************************************************************************)
C4_Logged(c) ==
    /\ HandlerInvokedOnce(c)
    /\ ~BypassInEffect(c)
    /\ c.cfg.log_visit

C4_Entry(c) ==
    [visitor |-> TheRequest(c).visitor,
     status_code |-> c.response[1].status_code]

C4_OneLogPerLoggedAccess ==
    [][IF Serves /\ C4_Logged(calls'[1])
       THEN logs' = Append(logs, C4_Entry(calls'[1]))
       ELSE logs' = logs]_vars

C4_Witness ==
    /\ calls # <<>>
    /\ C4_Logged(calls[1])
    /\ ReturnsHandlerResponse(calls[1])
    /\ Len(logs) = 2
    /\ logs[1].status_code = 200
    /\ logs[2] = C4_Entry(calls[1])
    /\ logs[2].status_code = 404

(***************************************************************************)
(* C5: with self_service on and a denial condition (no active credential,  *)
(* or a scope mismatch), the caller gets a redirect and no exception;      *)
(* exactly one Visitor is created, inactive, with the required scope and   *)
(* the self-service marker in its context; the redirect names that         *)
(* visitor's uuid and carries the request's full path as "next"; the       *)
(* handler is not invoked and no log entry is written.                     *)
(***************************************************************************)
C5_Case(c) ==
    /\ CarriesRequest(c)
    /\ c.cfg.self_service
    /\ ~BypassInEffect(c)
    /\ \/ ~HasActiveCredential(c)
       \/ c.cfg.scope # SCOPE_ANY /\ ScopeMismatch(c)

C5_Redirected(c, new) ==
    /\ Outcome(c).kind = "HttpResponseRedirect"
    /\ Outcome(c).location.url.viewname = "visitors:self-service"
    /\ Outcome(c).location.url.visitor_uuid = new.uuid
    /\ Outcome(c).location.query = <<"?next=", TheRequest(c).full_path>>

C5_SelfServiceCredential(c, new) ==
    /\ ~new.is_active
    /\ new.scope = c.cfg.scope
    /\ <<"self-service", TRUE>> \in new.context

C6_Case(c) ==
    /\ HasActiveCredential(c)
    /\ CredentialScope(c) = ""
    /\ ~BypassInEffect(c)

C6_Refused(c) ==
    /\ HandlerNotInvoked(c)
    /\ IF c.cfg.self_service
       THEN Outcome(c).kind = "HttpResponseRedirect"
       ELSE AccessDenied(c)

C6_EmptyScopeNeverPasses ==
    \A i \in DOMAIN calls :
        Finished(calls[i]) /\ C6_Case(calls[i]) => C6_Refused(calls[i])

(***************************************************************************)
(* C6, amended: a credential with an empty scope never passes a gate whose *)
(* required scope is not the wildcard: the request is denied, or           *)
(* redirected with self_service on, and the handler is not invoked. At a   *)
(* gate whose required scope is the wildcard "*" it is accepted: the       *)
(* handler is invoked and its response returned.                           *)
(***************************************************************************)
C6_EmptyScopePassesOnlyWildcard ==
    \A i \in DOMAIN calls :
        LET c == calls[i]
        IN  Finished(c) /\ C6_Case(c) =>
              IF c.cfg.scope = SCOPE_ANY
              THEN HandlerInvokedOnce(c) /\ ReturnsHandlerResponse(c)
              ELSE C6_Refused(c)

C6_Witness ==
    /\ calls # <<>>
    /\ Finished(calls[1])
    /\ C6_Case(calls[1])
    /\ calls[1].cfg.scope = "foo"
    /\ ~calls[1].cfg.self_service
    /\ C6_Refused(calls[1])

(***************************************************************************)
(* C7: user_is_visitor called with an empty scope, with or without a view, *)
(* raises the configuration error at once: it yields neither a wrapped     *)
(* view nor a partial, touches nothing in the store, and no invocation     *)
(* ever runs under a configuration with an empty scope.                    *)
(***************************************************************************)
C7_EmptyScopeRejected ==
    [][/\ deco'.kind # "None" /\ deco'.cfg.scope = "" =>
            /\ deco'.kind = "ValueError"
            /\ calls' = <<>>
            /\ StoreUntouched
       /\ \A i \in DOMAIN calls' : calls'[i].cfg.scope # ""]_vars

C7_Witness ==
    /\ deco.kind = "ValueError"
    /\ deco.cfg.scope = ""
    /\ ~deco.has_view_func
    /\ calls = <<>>
    /\ logs # <<>>

(***************************************************************************)
(* C8: the wildcard counts only as a required scope. A request that is not *)
(* bypassed has its handler invoked exactly when the required scope is "*" *)
(* or equals the credential's scope; in particular a credential whose      *)
(* scope is "*" is refused at every gate that requires another scope.      *)
(***************************************************************************)
C8_Case(c) ==
    /\ HasActiveCredential(c)
    /\ ~BypassInEffect(c)
    /\ CredentialScope(c) = SCOPE_ANY
    /\ c.cfg.scope # SCOPE_ANY

C8_WildcardOnlyOnGateSide ==
    \A i \in DOMAIN calls :
        LET c == calls[i]
        IN  Finished(c) /\ HasActiveCredential(c) /\ ~BypassInEffect(c) =>
              /\ HandlerInvokedOnce(c) <=>
                    c.cfg.scope = SCOPE_ANY \/ c.cfg.scope = CredentialScope(c)
              /\ C8_Case(c) =>
                    /\ HandlerNotInvoked(c)
                    /\ IF c.cfg.self_service
                       THEN Outcome(c).kind = "HttpResponseRedirect"
                       ELSE AccessDenied(c)

C8_Witness ==
    /\ calls # <<>>
    /\ Finished(calls[1])
    /\ C8_Case(calls[1])
    /\ calls[1].cfg.scope = "foo"
    /\ ~calls[1].cfg.self_service
    /\ AccessDenied(calls[1])
    /\ HandlerNotInvoked(calls[1])

(***************************************************************************)
(* C9: a store failure reaches the caller. On an allowed, logged access    *)
(* the handler has run, and the caller gets either the handler's response  *)
(* with the log entry written, or the store's failure with no entry        *)
(* written; on a self-service denial the caller gets either the redirect   *)
(* with the credential created, or the store's failure with no redirect    *)
(* and no credential. A failure is never swallowed: no response or         *)
(* redirect is returned without its row.                                   *)
(***************************************************************************)
C9_StoreFailed(c) == Outcome(c).kind = "StoreError"

C9_StoreFailuresPropagate ==
    [][Serves =>
        LET c == calls'[1]
        IN  /\ Finished(c)
            /\ C4_Logged(c) =>
                  /\ \/ /\ ReturnsHandlerResponse(c)
                        /\ logs' = Append(logs, C4_Entry(c))
                     \/ /\ C9_StoreFailed(c)
                        /\ logs' = logs
                  /\ visitors' = visitors
            /\ C5_Case(c) =>
                  /\ \/ /\ Len(visitors') = Len(visitors) + 1
                        /\ C5_Redirected(c, visitors'[Len(visitors')])
                     \/ /\ C9_StoreFailed(c)
                        /\ visitors' = visitors
                  /\ HandlerNotInvoked(c)
                  /\ logs' = logs
            /\ C9_StoreFailed(c) => StoreUntouched /\ (C4_Logged(c) \/ C5_Case(c))]_vars

C9_Witness ==
    /\ calls # <<>>
    /\ C4_Logged(calls[1])
    /\ C9_StoreFailed(calls[1])
    /\ Outcome(calls[1]).op = "create_log"
    /\ calls[1].response # <<>>
    /\ Len(logs) = 1

\* the same for the failed creation of a self-service credential
C9_WitnessIssuance ==
    /\ calls # <<>>
    /\ C5_Case(calls[1])
    /\ C9_StoreFailed(calls[1])
    /\ Outcome(calls[1]).op = "Visitor.objects.create"
    /\ visitors = InitialVisitors

(***************************************************************************)
(* C10: requests served concurrently do not affect one another. Each       *)
(* finished request has the outcome it has when served alone (up to the    *)
(* uuid of the credential a redirect names). No request returns before     *)
(* its own log entry or credential is in the store, no row is written      *)
(* for a request that has not reached its write, and once all requests     *)
(* have finished the store holds exactly one log entry per allowed,        *)
(* logged, non-bypassed request and one new inactive credential per        *)
(* self-service denial, each redirect naming a credential of its own.      *)
(***************************************************************************)
C10_Alone(c) ==
    Run(NewCall(c.cfg, c.args), InitialVisitors, <<>>,
        IF c.response = <<>> THEN 200 ELSE c.response[1].status_code, TRUE).call

C10_SameOutcome(c, alone) ==
    /\ c.view_calls = alone.view_calls
    /\ c.response = alone.response
    /\ IF Outcome(alone).kind = "HttpResponseRedirect"
       THEN /\ Outcome(c).kind = "HttpResponseRedirect"
            /\ Outcome(c).location.url.viewname = Outcome(alone).location.url.viewname
            /\ Outcome(c).location.query = Outcome(alone).location.query
       ELSE Outcome(c) = Outcome(alone)

\* the log entry a request is due once the handler has answered it
C10_DueLog(c) ==
    c.response # <<>> /\ ~BypassInEffect(c) /\ c.cfg.log_visit

C10_LogRows(e) == { i \in DOMAIN logs : logs[i] = e }
C10_Due(e) ==
    { i \in DOMAIN calls : C10_DueLog(calls[i]) /\ C4_Entry(calls[i]) = e }
C10_DueDone(e) == { i \in C10_Due(e) : Finished(calls[i]) }

C10_Entries ==
    { logs[i] : i \in DOMAIN logs }
        \cup { C4_Entry(calls[i]) : i \in { j \in DOMAIN calls : C10_DueLog(calls[j]) } }

C10_Denials == { i \in DOMAIN calls : C5_Case(calls[i]) }
C10_DenialsDone == { i \in C10_Denials : Finished(calls[i]) }
C10_NewRows == { i \in DOMAIN visitors : i > Len(InitialVisitors) }

C10_Named(c) == Outcome(c).location.url.visitor_uuid

C10_ConcurrentRequestsIndependent ==
    /\ \A i \in DOMAIN calls :
          Finished(calls[i]) => C10_SameOutcome(calls[i], C10_Alone(calls[i]))
    /\ \A e \in C10_Entries :
          /\ Cardinality(C10_DueDone(e)) <= Cardinality(C10_LogRows(e))
          /\ Cardinality(C10_LogRows(e)) <= Cardinality(C10_Due(e))
    /\ Cardinality(C10_DenialsDone) <= Cardinality(C10_NewRows)
    /\ Cardinality(C10_NewRows) <= Cardinality(C10_Denials)
    /\ \A i \in DOMAIN InitialVisitors : visitors[i] = InitialVisitors[i]
    /\ \A i \in C10_NewRows : visitors[i].uuid = i /\ ~visitors[i].is_active
    /\ \A i \in C10_DenialsDone :
          /\ C10_Named(calls[i]) \in C10_NewRows
          /\ C5_SelfServiceCredential(calls[i], visitors[C10_Named(calls[i])])
          /\ \A j \in C10_DenialsDone :
                C10_Named(calls[j]) = C10_Named(calls[i]) => j = i
    /\ (\A i \in DOMAIN calls : Finished(calls[i])) =>
          /\ \A e \in C10_Entries :
                Cardinality(C10_LogRows(e)) = Cardinality(C10_Due(e))
          /\ Cardinality(C10_NewRows) = Cardinality(C10_Denials)

\* two logged requests, the one that arrived second written first
C10_Witness ==
    /\ Len(calls) = 2
    /\ \A i \in DOMAIN calls : Finished(calls[i]) /\ C4_Logged(calls[i])
    /\ Len(logs) = 2
    /\ logs[1] = C4_Entry(calls[2])
    /\ logs[2] = C4_Entry(calls[1])
    /\ logs[1] # logs[2]

\* a self-service denial and an allowed, logged request in one run, both
\* finished, each with its own row in the store
C10_WitnessIssuance ==
    /\ Len(calls) = 2
    /\ \A i \in DOMAIN calls : Finished(calls[i])
    /\ C5_Case(calls[1])
    /\ C4_Logged(calls[2])
    /\ Len(logs) = 1
    /\ Cardinality(C10_NewRows) = 1

====
